---- MODULE Spec2Model ----
(***************************************************************************)
(* Model of the schedule generation engine of AIM@20                       *)
(* (app/ai/schedule_generator.py, class SmartScheduleGenerator).           *)
(*                                                                         *)
(* Times are minutes since midnight of the target date; a due date is a    *)
(* number of days relative to the target date.  A duration is an integer   *)
(* number of minutes; an absent estimated_duration is 0, which the code    *)
(* treats like None in every `task.estimated_duration or ...`.             *)
(***************************************************************************)
EXTENDS Integers, Sequences, FiniteSets, TLC

VARIABLES
    user_settings,        \* self.user_settings (the UserSettings row, or absent)
    task_rows,            \* the tasks: the Task table, or the list handed in
    mode,                 \* how generate_schedule receives its tasks
    pc,                   \* position of the generate_schedule call
    attempts,             \* the tiers entered so far, with their outcome
    sorted_tasks,         \* _allocate_tasks_fallback: sorted_tasks
    block_index,          \* _allocate_tasks_fallback: position of the for loop
    task_index,           \* _allocate_tasks_fallback: task_index
    session_count,        \* _allocate_tasks_fallback: session_count
    remaining_block_time, \* _allocate_tasks_fallback: remaining_block_time
    block_start_time,     \* _allocate_tasks_fallback: block_start_time
    allocations,          \* _allocate_tasks_fallback: allocations
    events,               \* log of the work sessions and breaks of the run
    db_session,           \* Schedule records added to db.session
    schedule,             \* the Schedule generate_schedule returns
    fn,                   \* call record of the duration functions
    multi_day,            \* the generate_multi_day_schedule call
    ai_call,              \* the _generate_ai_schedule call
    requests,             \* routes/schedules.py generate: the requests and the Schedule table
    pomodoro              \* routes/pomodoro.py: the PomodoroSession table

vars == << user_settings, task_rows, mode, pc, attempts, sorted_tasks,
           block_index, task_index, session_count, remaining_block_time,
           block_start_time, allocations, events, db_session, schedule, fn, multi_day, ai_call, requests, pomodoro >>

(***************************************************************************)
(* Bounds of the model.                                                    *)
(***************************************************************************)
MaxTasks == 3
\* the duration functions are called on estimates 0..MaxEstimate and on
\* remaining capacities 0, 7, 14, ... 7 * MaxAvailableSteps
MaxEstimate == 130
MaxAvailableSteps == 19
\* generate_multi_day_schedule is called on 1..MaxDays days
MaxDays == 3
MaxTotal == 310
MaxDue == 12
MaxRequests == 3
MaxHistory == 5
MaxNewSessions == 1

(***************************************************************************)
(* Values.                                                                 *)
(***************************************************************************)
NoCategory == "none"
\* a task without due date: the sort key of the allocator is datetime.date.max
NoDue == 9999

Priorities == {"high", "medium", "low"}
Categories == {"exam", "assignment", "reading", "practice", "review", "study"}

Min(a, b) == IF a <= b THEN a ELSE b
Max(a, b) == IF a >= b THEN a ELSE b
Abs(a) == IF a < 0 THEN -a ELSE a

RECURSIVE SumDurations(_)
SumDurations(s) ==
    IF s = << >> THEN 0 ELSE Head(s).duration + SumDurations(Tail(s))

\* position an element takes in Python's stable sort by ascending key
StableRank(keys, i) ==
    Cardinality({j \in DOMAIN keys :
                    keys[j] < keys[i] \/ (keys[j] = keys[i] /\ j < i)}) + 1

StableSortByKey(s, keys) ==
    [k \in 1..Len(s) |-> s[CHOOSE i \in 1..Len(s) : StableRank(keys, i) = k]]

SelectSeqIdx(s, Keep(_)) ==
    LET F[i \in 0..Len(s)] ==
            IF i = 0 THEN << >>
            ELSE IF Keep(s[i]) THEN Append(F[i-1], s[i]) ELSE F[i-1]
    IN F[Len(s)]

(***************************************************************************)
(* _calculate_optimal_duration.  The code computes in floats; the model    *)
(* keeps hundredths (after the priority step) and thousandths (after the   *)
(* category step) of a minute, which gives the same integers as the code   *)
(* on every input of the model.                                            *)
(***************************************************************************)
category_multipliers(category) ==
    CASE category = "exam" -> 13
      [] category = "assignment" -> 11
      [] category = "reading" -> 9
      [] category = "practice" -> 10
      [] category = "review" -> 8
      [] OTHER -> 10

\* round(duration / 5) * 5 on an integer duration
round_to_5(duration) == ((duration + 2) \div 5) * 5

\* mutant: the high-priority product is not capped to available_time (line 1752)
priority_adjusted_uncapped(task, available_time, default_duration) ==
    LET base_duration == IF task.estimated_duration # 0
                         THEN task.estimated_duration ELSE default_duration
    IN  CASE task.priority = "high" -> base_duration * 120
          [] task.priority = "low" -> Max(base_duration * 80, 1500)
          [] OTHER -> base_duration * 100

priority_adjusted_x100(task, available_time, default_duration) ==
    LET base_duration == IF task.estimated_duration # 0
                         THEN task.estimated_duration ELSE default_duration
    IN  CASE task.priority = "high" -> Min(base_duration * 120, available_time * 100)
          [] task.priority = "low" -> Max(base_duration * 80, 1500)
          [] OTHER -> base_duration * 100

\* mutant: the rounding to 5 minutes of line 1774 is left out
calculate_optimal_duration_unrounded(task, available_time, default_duration) ==
    LET base_x1000 == priority_adjusted_x100(task, available_time, default_duration)
                        * category_multipliers(task.category)
    IN  Max(15, Min(base_x1000 \div 1000, Min(available_time, 120)))

calculate_optimal_duration(task, available_time, default_duration) ==
    LET base_x1000 == priority_adjusted_x100(task, available_time, default_duration)
                        * category_multipliers(task.category)
        duration == Max(15, Min(base_x1000 \div 1000, Min(available_time, 120)))
    IN  round_to_5(duration)

(***************************************************************************)
(* _estimate_task_duration                                                 *)
(***************************************************************************)
category_estimates(category) ==
    CASE category = "exam" -> 90
      [] category = "assignment" -> 60
      [] category = "reading" -> 45
      [] category = "practice" -> 30
      [] category = "review" -> 25
      [] OTHER -> 30

estimate_task_duration(task) ==
    LET base == category_estimates(task.category)
        adjusted == CASE task.priority = "high" -> (base * 12) \div 10
                      [] task.priority = "low" -> (base * 8) \div 10
                      [] OTHER -> base
    IN  Max(15, Min(adjusted, 120))

(***************************************************************************)
(* User settings.  preferred_study_times is the stored JSON text: absent   *)
(* (NULL), or a list of strings of which `times` are the minutes they      *)
(* denote; parses = FALSE is a text that json.loads or strptime('%H:%M')   *)
(* rejects (no route validates what it stores).                            *)
(***************************************************************************)
Pref(stored, parses, times) == [stored |-> stored, parses |-> parses, times |-> times]

Settings(work, brk, long, n, pref) ==
    [present |-> TRUE, pomodoro_work_duration |-> work, pomodoro_break_duration |-> brk,
     long_break_duration |-> long, sessions_until_long_break |-> n,
     preferred_study_times |-> pref]

\* no UserSettings row: every reader falls back to its default
NoSettings ==
    [present |-> FALSE, pomodoro_work_duration |-> 25, pomodoro_break_duration |-> 5,
     long_break_duration |-> 15, sessions_until_long_break |-> 4,
     preferred_study_times |-> Pref(FALSE, TRUE, << >>)]

SettingsRows ==
    { NoSettings,
      Settings(25, 5, 15, 2, Pref(TRUE, TRUE, << >>)),
      Settings(25, 5, 15, 3, Pref(TRUE, TRUE, << 540, 600 >>)),
      Settings(25, 5, 15, 0, Pref(TRUE, TRUE, << 540, 555 >>)),
      Settings(25, 5, 15, 0, Pref(TRUE, FALSE, << >>)),
      Settings(50, 10, 30, 1, Pref(FALSE, TRUE, << >>)),
      Settings(100, 10, 30, 4, Pref(FALSE, TRUE, << >>)) }

work_duration == user_settings.pomodoro_work_duration
break_duration == user_settings.pomodoro_break_duration
long_break_duration == user_settings.long_break_duration
sessions_until_long_break == user_settings.sessions_until_long_break

\* _get_preferred_times: raises on a text it cannot parse
preferred_times_raises ==
    /\ user_settings.present
    /\ user_settings.preferred_study_times.stored
    /\ ~user_settings.preferred_study_times.parses

get_preferred_times ==
    IF user_settings.present /\ user_settings.preferred_study_times.stored
    THEN user_settings.preferred_study_times.times
    ELSE << 540, 840, 1140 >>

(***************************************************************************)
(* Tasks.                                                                  *)
(***************************************************************************)
Task(priority, category, due, est, ga) ==
    [priority |-> priority, category |-> category, due_date |-> due,
     estimated_duration |-> est, goal_alignment |-> ga]

\* the task profiles the model draws its task lists from
TaskPool ==
    { Task("high", "exam", 0, 60, 100),
      Task("low", NoCategory, 10, 30, 50),
      Task("medium", NoCategory, NoDue, 120, 50),
      Task("medium", "review", 3, 0, 0),
      Task("high", "exam", NoDue, 0, 70) }

WithIds(profiles) ==
    [i \in 1..Len(profiles) |->
        [id |-> i, priority |-> profiles[i].priority, category |-> profiles[i].category,
         due_date |-> profiles[i].due_date,
         estimated_duration |-> profiles[i].estimated_duration,
         goal_alignment |-> profiles[i].goal_alignment]]

TaskLists == UNION { { WithIds(p) : p \in [1..n -> TaskPool] } : n \in 0..MaxTasks }

(***************************************************************************)
(* How the call gets its tasks:                                            *)
(*   "query"  tasks=None: every tier runs its own query on the Task table  *)
(*            (routes/schedules.py:83); the rows carry datetime due dates; *)
(*   "rows"   a list of Task rows is handed in (line 332): datetime due     *)
(*            dates, no goal_alignment attribute;                          *)
(*   "values" a list of task objects carrying date due dates and a         *)
(*            goal_alignment attribute is handed in.                       *)
(***************************************************************************)
Modes == {"query", "rows", "values"}

\* ORDER BY priority DESC, due_date ASC: the priority is a string column
query_order_key(t) ==
    (CASE t.priority = "medium" -> 0 [] t.priority = "low" -> 1 [] OTHER -> 2) * 100000
    + (t.due_date + 1000)

query_sorted(rows) == StableSortByKey(rows, [i \in 1..Len(rows) |-> query_order_key(rows[i])])

\* the date of the generate_schedule call, in days after the first date;
\* due dates are in days after the first date as well
today == multi_day.day_offset

HasRecentDue(t) == t.due_date # NoDue /\ t.due_date >= today - 7
HasNearDue(t) == t.due_date # NoDue /\ t.due_date <= today + 7

\* the list handed to generate_schedule(date, tasks)
given_tasks ==
    IF multi_day.pc = "loop" THEN multi_day.distributions[multi_day.day_offset + 1]
    ELSE task_rows

\* _get_productivity_tasks and _get_enterprise_tasks select the same rows
get_enterprise_tasks == query_sorted(SelectSeqIdx(task_rows, HasRecentDue))

\* the query of _generate_basic_schedule, with its .limit(5)
get_basic_tasks ==
    LET rows == query_sorted(SelectSeqIdx(task_rows, HasNearDue))
    IN  SubSeq(rows, 1, Min(5, Len(rows)))

(***************************************************************************)
(* Schedules, scheduled items, and the log of sessions and breaks.         *)
(***************************************************************************)
Item(task_id, scheduled_time, duration) ==
    [task_id |-> task_id, scheduled_time |-> scheduled_time, duration |-> duration]

Session(task_id, scheduled_time, duration) ==
    [type |-> "session", kind |-> "work", task_id |-> task_id,
     scheduled_time |-> scheduled_time, duration |-> duration]

Break(kind, scheduled_time, duration) ==
    [type |-> "break", kind |-> kind, task_id |-> 0,
     scheduled_time |-> scheduled_time, duration |-> duration]

\* tier 0 is "no schedule yet"
NoSchedule == [tier |-> 0, generated_by_ai |-> FALSE, total_study_time |-> 0, items |-> << >>]

(***************************************************************************)
(* _create_advanced_daily_structure                                        *)
(***************************************************************************)
Block(start, end, type) == [start |-> start, end |-> end, type |-> type]

create_advanced_daily_structure ==
    << Block(480, 540, "morning_routine"),
       Block(540, 630, "study"),
       Block(630, 660, "break"),
       Block(660, 750, "study"),
       Block(750, 810, "meal"),
       Block(810, 900, "study"),
       Block(900, 930, "break"),
       Block(930, 1020, "study"),
       Block(1020, 1080, "meal"),
       Block(1080, 1170, "study"),
       Block(1170, 1200, "wind_down") >>

\* line 747: the blocks the allocator passes over
skips_block(block_type) == block_type = "break"

(***************************************************************************)
(* First tier: _generate_productivity_optimized_schedule                   *)
(***************************************************************************)
calculate_due_date_urgency_soon_below_3(due_date) ==
    IF due_date = NoDue THEN 30
    ELSE IF due_date < 0 THEN 100
    ELSE IF due_date = 0 THEN 90
    ELSE IF due_date < 3 THEN 70
    ELSE IF due_date <= 7 THEN 50
    ELSE 20

\* lines 1551-1567 on days_until_due = (due_date - current_date).days, in
\* hundredths
calculate_due_date_urgency(due_date) ==
    IF due_date = NoDue THEN 30
    ELSE IF due_date < 0 THEN 100
    ELSE IF due_date = 0 THEN 90
    ELSE IF due_date <= 3 THEN 70
    ELSE IF due_date <= 7 THEN 50
    ELSE 20

base_priority(task) ==
    IF task.priority = "high" THEN 3 ELSE IF task.priority = "medium" THEN 2 ELSE 1

\* the float sum of line 1367 is one unit in the last place off the exact
\* value on these operands, which decides the order of otherwise equal scores
float_error(b, u, g) ==
    CASE b = 2 /\ u = 100 /\ g = 0 -> 1
      [] b = 2 /\ u = 50 /\ g = 0 -> 1
      [] b = 2 /\ u = 70 /\ g = 100 -> -1
      [] b = 2 /\ u = 30 /\ g = 100 -> -1
      [] b = 2 /\ u = 20 /\ g = 100 -> -1
      [] b = 3 /\ u = 100 /\ g = 0 -> -1
      [] OTHER -> 0

\* final_score, in units of 1/40000, with the float error as the last digit
priority_score(task) ==
    LET b == base_priority(task)
        u == calculate_due_date_urgency(IF task.due_date = NoDue THEN NoDue
                                        ELSE task.due_date - today)
        g == task.goal_alignment
    IN  4 * (b * 3000 + u * 25 + 10000 + g * 15 + 500) + float_error(b, u, g)

prioritize_for_productivity_ascending(tasks) ==
    StableSortByKey(tasks, [i \in 1..Len(tasks) |-> priority_score(tasks[i])])

\* lines 1350-1383: sorted(..., key=priority_score, reverse=True)
prioritize_for_productivity(tasks) ==
    StableSortByKey(tasks, [i \in 1..Len(tasks) |-> 0 - priority_score(tasks[i])])

prioritized_duration(task) ==
    IF task.estimated_duration # 0 THEN task.estimated_duration
    ELSE estimate_task_duration(task)

\* _get_energy_forecast without EnergyPattern rows (no route creates one),
\* in tenths
energy_forecast(hour) == Max(30, 80 - 10 * Abs(hour - 10))

energy_sorted_slots ==
    LET hours == [i \in 1..16 |-> i + 5]
    IN  StableSortByKey(hours, [i \in 1..16 |-> 0 - energy_forecast(hours[i])])

time_in_range(time_minutes, preferred_minutes) ==
    Abs(time_minutes - preferred_minutes) <= 60

\* the for loop of _allocate_energy_aware_times from slot k on
RECURSIVE energy_loop(_, _, _, _)
energy_loop(k, prioritized, preferred_times, acc) ==
    IF k > Len(energy_sorted_slots) \/ Len(acc) >= Len(prioritized) THEN acc
    ELSE LET hour == energy_sorted_slots[k]
             task == prioritized[Len(acc) + 1]
         IN  IF /\ \E i \in DOMAIN preferred_times :
                        time_in_range(hour * 60, preferred_times[i])
                /\ energy_forecast(hour) >= 30
             THEN energy_loop(k + 1, prioritized, preferred_times,
                      Append(acc, Item(task.id, hour * 60, prioritized_duration(task))))
             ELSE energy_loop(k + 1, prioritized, preferred_times, acc)

\* the while loop of _allocate_energy_aware_times (len(preferred_times) > 0)
fallback_loop(prioritized, preferred_times, acc) ==
    [i \in 1..Len(prioritized) |->
        IF i <= Len(acc) THEN acc[i]
        ELSE Item(prioritized[i].id,
                  preferred_times[((i - 1) % Len(preferred_times)) + 1],
                  prioritized_duration(prioritized[i]))]

allocate_energy_aware_times(prioritized) ==
    fallback_loop(prioritized, get_preferred_times,
                  energy_loop(1, prioritized, get_preferred_times, << >>))

\* the modulo of line 1463 and of line 773 decides the kind of a break
break_kind(count, n) == IF count % n = 0 THEN "long" ELSE "short"

break_length(kind) == IF kind = "long" THEN long_break_duration ELSE break_duration

\* _inject_productivity_breaks: block i is session number i
inject_productivity_breaks(time_blocks) ==
    LET n == Len(time_blocks)
        At(i) == time_blocks[(i + 1) \div 2]
    IN  [i \in 1..(IF n = 0 THEN 0 ELSE 2 * n - 1) |->
            IF i % 2 = 1
            THEN Session(At(i).task_id, At(i).scheduled_time, At(i).duration)
            ELSE LET kind == break_kind(i \div 2, sessions_until_long_break)
                 IN  Break(kind, At(i).scheduled_time + At(i).duration, break_length(kind))]

IsSession(e) == e.type = "session"

items_of(blocks) ==
    LET sessions == SelectSeqIdx(blocks, IsSession)
    IN  [i \in 1..Len(sessions) |->
            Item(sessions[i].task_id, sessions[i].scheduled_time, sessions[i].duration)]

\* mutant: the sum of line 1491 without its `if block.get('type') != 'break'`
productivity_total_with_breaks(blocks) == SumDurations(blocks)

\* line 1491: the breaks are left out of the sum
productivity_total(blocks) == SumDurations(SelectSeqIdx(blocks, IsSession))

create_productivity_schedule(blocks) ==
    [tier |-> 1, generated_by_ai |-> TRUE,
     total_study_time |-> productivity_total(blocks), items |-> items_of(blocks)]

\* the tasks the first tier works on
productivity_tasks == IF mode = "query" THEN get_enterprise_tasks ELSE given_tasks

productivity_raises_on_empty ==
    LET tasks == productivity_tasks
        prioritized == prioritize_for_productivity(tasks)
        placed == energy_loop(1, prioritized, get_preferred_times, << >>)
    IN  \/ mode \in {"query", "rows"}
        \/ preferred_times_raises
        \/ Len(placed) < Len(prioritized) /\ get_preferred_times = << >>
        \/ Len(tasks) >= 2 /\ sessions_until_long_break = 0

\* the exceptions of the first tier, in the order the code meets them:
\*  TypeError in due_date - date on a datetime due date (lines 1543, 1556),
\*  AttributeError on task.goal_alignment (line 1362), ValueError in
\*  _get_preferred_times, ZeroDivisionError in task_index % len([]) (line 1425)
\*  and in session_count % 0 (line 1463)
productivity_raises ==
    LET tasks == productivity_tasks
        prioritized == prioritize_for_productivity(tasks)
        placed == energy_loop(1, prioritized, get_preferred_times, << >>)
    IN  /\ tasks # << >>
        /\ \/ mode \in {"query", "rows"}
           \/ preferred_times_raises
           \/ Len(placed) < Len(prioritized) /\ get_preferred_times = << >>
           \/ Len(tasks) >= 2 /\ sessions_until_long_break = 0

productivity_blocks ==
    inject_productivity_breaks(
        allocate_energy_aware_times(prioritize_for_productivity(productivity_tasks)))

(***************************************************************************)
(* _allocate_tasks_fallback: the sort of lines 724-728                     *)
(***************************************************************************)
priority_rank(task) ==
    IF task.priority = "high" THEN 0 ELSE IF task.priority = "medium" THEN 1 ELSE 2

\* position of `category or 'z'` in the lexicographic order of the strings
category_rank(category) ==
    CASE category = "assignment" -> 1
      [] category = "exam" -> 2
      [] category = "practice" -> 3
      [] category = "reading" -> 4
      [] category = "review" -> 5
      [] category = "study" -> 6
      [] OTHER -> 7

allocation_key(task) ==
    priority_rank(task) * 10000000 + (task.due_date + 1000) * 10 + category_rank(task.category)

\* mutant: the list is allocated in the order it was given
sort_for_allocation_as_given(tasks) == tasks

sort_for_allocation(tasks) ==
    StableSortByKey(tasks, [i \in 1..Len(tasks) |-> allocation_key(tasks[i])])

\* TypeError: the sort compares a datetime due date with datetime.date.max
\* when two rows of equal priority differ in having a due date
allocation_sort_raises(tasks) ==
    /\ mode = "rows"
    /\ \E i, j \in DOMAIN tasks :
          /\ priority_rank(tasks[i]) = priority_rank(tasks[j])
          /\ tasks[i].due_date = NoDue
          /\ tasks[j].due_date # NoDue

(***************************************************************************)
(* generate_schedule, lines 80-91: where the call goes when a tier raises  *)
(* and when it returns.                                                    *)
(***************************************************************************)
\* mutant: the first tier falls back to the basic tier directly
after_raise_skips_advanced(tier) ==
    CASE tier = 1 -> "tier3"
      [] tier = 2 -> "tier3"
      [] OTHER -> "raised"

after_raise(tier) ==
    CASE tier = 1 -> "tier2"
      [] tier = 2 -> "tier3"
      [] OTHER -> "raised"

after_return(tier) == "done"

Attempt(tier, raised) == [tier |-> tier, raised |-> raised]

NoCall == [name |-> "none", task |-> Task("medium", NoCategory, NoDue, 0, 0),
           available_time |-> 0, default_duration |-> 0, result |-> 0]

\* no multi-day call and no _generate_ai_schedule call is in progress
NoMultiDay == [pc |-> "none", api_available |-> FALSE, days |-> 0, response |-> "none",
               path |-> "none", day_offset |-> 0, distributions |-> << >>,
               schedules |-> << >>]

NoAICall == [pc |-> "none", api_available |-> FALSE, response |-> "none",
             outcome |-> "none", result |-> << >>]

\* no generate request is in progress and the Schedule table is empty
NoRequests == [table |-> << >>, request |-> << >>]

\* the PomodoroSession table is empty
NoPomodoro == [sessions |-> << >>, started |-> 0, response |-> "none"]

alloc_vars == << sorted_tasks, block_index, task_index, session_count,
                 remaining_block_time, block_start_time, allocations >>

alloc_reset ==
    /\ sorted_tasks' = << >>
    /\ block_index' = 0
    /\ task_index' = 0
    /\ session_count' = 0
    /\ remaining_block_time' = 0
    /\ block_start_time' = 0
    /\ allocations' = << >>

Init ==
    /\ user_settings \in SettingsRows
    /\ task_rows \in TaskLists
    /\ mode = "none"
    /\ pc = "idle"
    /\ attempts = << >>
    /\ sorted_tasks = << >>
    /\ block_index = 0
    /\ task_index = 0
    /\ session_count = 0
    /\ remaining_block_time = 0
    /\ block_start_time = 0
    /\ allocations = << >>
    /\ events = << >>
    /\ db_session = << >>
    /\ schedule = NoSchedule
    /\ multi_day = NoMultiDay
    /\ ai_call = NoAICall
    /\ requests = NoRequests
    /\ pomodoro = NoPomodoro
    /\ fn = NoCall

\* the caller invokes generate_schedule(date, tasks)
generate_schedule ==
    /\ pc = "idle"
    /\ \E m \in Modes : mode' = m
    /\ pc' = "tier1"
    /\ UNCHANGED << user_settings, task_rows, attempts, alloc_vars, events,
                    db_session, schedule, fn, multi_day, ai_call, requests, pomodoro >>

\* a tier returns the Schedule it has added to the session
tier_returns(tier, s, log) ==
    /\ attempts' = Append(attempts, Attempt(tier, FALSE))
    /\ schedule' = s
    /\ db_session' = Append(db_session, s)
    /\ events' = log
    /\ pc' = after_return(tier)

tier_raises_after_add(tier) ==
    /\ attempts' = Append(attempts, Attempt(tier, TRUE))
    /\ pc' = after_raise(tier)
    /\ events' = << >>
    /\ db_session' = Append(db_session, [tier |-> tier, generated_by_ai |-> TRUE,
                                         total_study_time |-> 0, items |-> << >>])
    /\ UNCHANGED schedule

\* every raise of a tier precedes its db.session.add (lines 110, 123, 155,
\* 176, 1493, 1642)
tier_raises(tier) ==
    /\ attempts' = Append(attempts, Attempt(tier, TRUE))
    /\ pc' = after_raise(tier)
    /\ events' = << >>
    /\ UNCHANGED << schedule, db_session >>

\* lines 948-969, with _generate_empty_schedule (lines 1634-1644)
generate_productivity_optimized_schedule ==
    /\ pc = "tier1"
    /\ IF productivity_raises
       THEN tier_raises(1)
       ELSE IF productivity_tasks = << >>
            THEN tier_returns(1, [tier |-> 1, generated_by_ai |-> TRUE,
                                  total_study_time |-> 0, items |-> << >>], << >>)
            ELSE tier_returns(1, create_productivity_schedule(productivity_blocks),
                              productivity_blocks)
    /\ UNCHANGED << user_settings, task_rows, mode, alloc_vars, fn, multi_day, ai_call, requests, pomodoro >>

advanced_tasks == IF mode = "query" THEN get_enterprise_tasks ELSE given_tasks

\* lines 717-736: the entry of _allocate_tasks_fallback, up to the for loop
allocate_tasks_fallback(tasks) ==
    /\ sorted_tasks' = sort_for_allocation(tasks)
    /\ block_index' = 1
    /\ task_index' = 0
    /\ session_count' = 0
    /\ allocations' = << >>
    /\ pc' = "for"
    /\ events' = << >>
    /\ UNCHANGED << remaining_block_time, block_start_time >>

\* lines 93-114 and 717-735: up to the first iteration of the for loop
generate_advanced_schedule ==
    /\ pc = "tier2"
    /\ IF advanced_tasks = << >>
       THEN /\ tier_returns(2, [tier |-> 2, generated_by_ai |-> TRUE,
                                total_study_time |-> 0, items |-> << >>], << >>)
            /\ UNCHANGED alloc_vars
       ELSE IF allocation_sort_raises(advanced_tasks)
            THEN tier_raises(2) /\ UNCHANGED alloc_vars
            ELSE /\ allocate_tasks_fallback(advanced_tasks)
                 /\ UNCHANGED << attempts, schedule, db_session >>
    /\ UNCHANGED << user_settings, task_rows, mode, fn, multi_day, ai_call, requests, pomodoro >>

\* lines 737-752: one iteration of `for time_block in daily_schedule`
allocate_next_block ==
    /\ pc = "for"
    /\ IF block_index > Len(create_advanced_daily_structure)
          \/ task_index >= Len(sorted_tasks)
       THEN /\ pc' = "persist"
            /\ UNCHANGED << block_index, remaining_block_time, block_start_time >>
       ELSE LET time_block == create_advanced_daily_structure[block_index]
            IN  IF skips_block(time_block.type)
                THEN /\ block_index' = block_index + 1
                     /\ pc' = "for"
                     /\ UNCHANGED << remaining_block_time, block_start_time >>
                ELSE /\ remaining_block_time' = time_block.end - time_block.start
                     /\ block_start_time' = time_block.start
                     /\ pc' = "while"
                     /\ UNCHANGED block_index
    /\ UNCHANGED << user_settings, task_rows, mode, attempts, sorted_tasks, task_index,
                    session_count, allocations, events, db_session, schedule, fn, multi_day, ai_call, requests, pomodoro >>

\* mutant: the loop takes the pending tasks from the end of the list
next_task_from_end(tasks, index) == tasks[Len(tasks) - index]

\* line 755: task = sorted_tasks[task_index]
next_task(tasks, index) == tasks[index + 1]

\* lines 754-780: one iteration of the while loop, or its exit
allocate_in_block ==
    /\ pc = "while"
    /\ IF remaining_block_time >= work_duration /\ task_index < Len(sorted_tasks)
       THEN LET task == next_task(sorted_tasks, task_index)
                duration == calculate_optimal_duration(task, remaining_block_time,
                                                       work_duration)
                remaining == remaining_block_time - duration
                count == session_count + 1
                session == Session(task.id, block_start_time, duration)
                placed ==
                    /\ allocations' = Append(allocations,
                                             Item(task.id, block_start_time, duration))
                    /\ task_index' = task_index + 1
                    /\ pc' = "while"
                    /\ UNCHANGED << sorted_tasks, block_index, attempts, schedule,
                                    db_session >>
                no_break ==
                    /\ placed
                    /\ remaining_block_time' = remaining
                    /\ block_start_time' = block_start_time + duration
                    /\ session_count' = count
                    /\ events' = Append(events, session)
            IN  IF duration <= remaining_block_time
                THEN IF remaining >= break_duration /\ task_index + 1 < Len(sorted_tasks)
                     THEN IF sessions_until_long_break = 0
                          THEN tier_raises(2) /\ alloc_reset
                          ELSE LET kind == break_kind(count, sessions_until_long_break)
                                   break_duration_actual == break_length(kind)
                               IN  IF remaining >= break_duration_actual
                                   THEN /\ placed
                                        /\ remaining_block_time' =
                                               remaining - break_duration_actual
                                        /\ block_start_time' = block_start_time + duration
                                                                 + break_duration_actual
                                        /\ session_count' =
                                               IF kind = "long" THEN 0 ELSE count
                                        /\ events' = events \o << session,
                                               Break(kind, block_start_time + duration,
                                                     break_duration_actual) >>
                                   ELSE no_break
                     ELSE no_break
                ELSE /\ pc' = "for"
                     /\ block_index' = block_index + 1
                     /\ UNCHANGED << sorted_tasks, task_index, session_count,
                                     remaining_block_time, block_start_time, allocations,
                                     attempts, events, schedule, db_session >>
       ELSE /\ pc' = "for"
            /\ block_index' = block_index + 1
            /\ UNCHANGED << sorted_tasks, task_index, session_count,
                            remaining_block_time, block_start_time, allocations,
                            attempts, events, schedule, db_session >>
    /\ UNCHANGED << user_settings, task_rows, mode, fn, multi_day, ai_call, requests, pomodoro >>

\* line 121: the total is the sum over the allocations
advanced_total(allocs) == SumDurations(allocs)

\* lines 116-137: the Schedule of the advanced tier
save_advanced_schedule ==
    /\ pc = "persist"
    /\ tier_returns(2, [tier |-> 2, generated_by_ai |-> TRUE,
                        total_study_time |-> advanced_total(allocations),
                        items |-> allocations], events)
    /\ UNCHANGED << user_settings, task_rows, mode, alloc_vars, fn, multi_day, ai_call, requests, pomodoro >>

basic_tasks == IF mode = "query" THEN get_basic_tasks ELSE given_tasks

basic_allocations_first_task(tasks, preferred_times) ==
    [i \in 1..Min(Len(tasks), Len(preferred_times)) |->
        Item(tasks[1].id, preferred_times[i],
             IF tasks[i].estimated_duration # 0 THEN tasks[i].estimated_duration ELSE 25)]

\* lines 160-168: one task per preferred time
basic_allocations(tasks, preferred_times) ==
    [i \in 1..Min(Len(tasks), Len(preferred_times)) |->
        Item(tasks[i].id, preferred_times[i],
             IF tasks[i].estimated_duration # 0 THEN tasks[i].estimated_duration ELSE 25)]

\* lines 139-191
generate_basic_schedule ==
    /\ pc = "tier3"
    /\ IF basic_tasks = << >>
       THEN tier_returns(3, [tier |-> 3, generated_by_ai |-> FALSE,
                             total_study_time |-> 0, items |-> << >>], << >>)
       ELSE IF preferred_times_raises
            THEN tier_raises(3)
            ELSE LET allocs == basic_allocations(basic_tasks, get_preferred_times)
                 IN  tier_returns(3, [tier |-> 3, generated_by_ai |-> FALSE,
                                      total_study_time |-> SumDurations(allocs),
                                      items |-> allocs], << >>)
    /\ UNCHANGED << user_settings, task_rows, mode, alloc_vars, fn, multi_day, ai_call, requests, pomodoro >>

Next ==
    \/ generate_schedule
    \/ generate_productivity_optimized_schedule
    \/ generate_advanced_schedule
    \/ allocate_next_block
    \/ allocate_in_block
    \/ save_advanced_schedule
    \/ generate_basic_schedule

Spec == Init /\ [][Next]_vars

(***************************************************************************)
(* The duration functions on their own: Init draws a task, a remaining     *)
(* capacity and a default duration, and each action is one call.           *)
(***************************************************************************)
DurationInputs ==
    { [name |-> "none", task |-> Task(p, c, NoDue, e, 0),
       available_time |-> 7 * a, default_duration |-> d, result |-> 0] :
        p \in Priorities, c \in Categories \cup {NoCategory},
        e \in 0..MaxEstimate, a \in 0..MaxAvailableSteps, d \in {25, 50} }

InitDuration ==
    /\ fn \in { c \in DurationInputs :
                   c.task.estimated_duration = 0 \/ c.default_duration = 25 }
    /\ user_settings = NoSettings
    /\ task_rows = << >>
    /\ mode = "none"
    /\ pc = "fn"
    /\ attempts = << >>
    /\ sorted_tasks = << >>
    /\ block_index = 0
    /\ task_index = 0
    /\ session_count = 0
    /\ remaining_block_time = 0
    /\ block_start_time = 0
    /\ allocations = << >>
    /\ events = << >>
    /\ db_session = << >>
    /\ schedule = NoSchedule
    /\ multi_day = NoMultiDay
    /\ ai_call = NoAICall
    /\ requests = NoRequests
    /\ pomodoro = NoPomodoro

pipeline_vars == << user_settings, task_rows, mode, pc, attempts, alloc_vars, events,
                    db_session, schedule, multi_day, ai_call, requests, pomodoro >>

call_calculate_optimal_duration ==
    /\ fn.name = "none"
    /\ fn' = [fn EXCEPT !.name = "calculate_optimal_duration",
                        !.result = calculate_optimal_duration(fn.task, fn.available_time,
                                                              fn.default_duration)]
    /\ UNCHANGED pipeline_vars

call_estimate_task_duration ==
    /\ fn.name = "none"
    /\ fn' = [fn EXCEPT !.name = "estimate_task_duration",
                        !.result = estimate_task_duration(fn.task)]
    /\ UNCHANGED pipeline_vars

NextDuration == call_calculate_optimal_duration \/ call_estimate_task_duration

SpecDuration == InitDuration /\ [][NextDuration]_vars

(***************************************************************************)
(* generate_multi_day_schedule, lines 313-405.  The response of the        *)
(* external generator to the distribution prompt is an input: the call     *)
(* raises, or returns a text that is not JSON, or a JSON array of lists of *)
(* task indices.                                                           *)
(***************************************************************************)
Raises == [kind |-> "raises", days |-> << >>]
Text == [kind |-> "text", days |-> << >>]
Partition(days) == [kind |-> "json", days |-> days]

DistributionResponses ==
    { Raises, Text,
      Partition(<< << 0, 0 >>, << 0, 1 >> >>),
      Partition(<< << 1 >>, << 0 >> >>),
      Partition(<< << -1, 5 >>, << -9 >> >>) }

\* mutant: the module imports json, so that line 375 parses the response
json_is_imported == TRUE

\* line 375 reads the name json, which the module never binds: the only
\* `import json` (line 285) is local to _generate_ai_schedule
json_is_bound == FALSE

\* lines 389-395
distribute_tasks_fallback(tasks, days) ==
    [d \in 1..days |->
        SelectSeqIdx(tasks, LAMBDA t :
            \E i \in DOMAIN tasks : tasks[i] = t /\ (i - 1) % days = d - 1)]

\* line 380: [tasks[i] for i in day_indices_list if i < len(tasks)]
tasks_at(tasks, indices) ==
    LET F[k \in 0..Len(indices)] ==
            IF k = 0 THEN << >>
            ELSE IF indices[k] < Len(tasks)
                 THEN Append(F[k - 1],
                             tasks[IF indices[k] >= 0 THEN indices[k] + 1
                                   ELSE Len(tasks) + indices[k] + 1])
                 ELSE F[k - 1]
    IN  F[Len(indices)]

\* IndexError: a negative index below -len(tasks)
index_raises(tasks, response) ==
    \E d \in DOMAIN response.days : \E k \in DOMAIN response.days[d] :
        response.days[d][k] < 0 - Len(tasks)

\* lines 337-387
distribute_tasks_across_days(tasks, days, response) ==
    IF tasks = << >> THEN [d \in 1..days |-> << >>]
    ELSE IF \/ response.kind = "raises"
            \/ ~json_is_bound
            \/ response.kind = "text"
            \/ index_raises(tasks, response)
         THEN distribute_tasks_fallback(tasks, days)
         ELSE [d \in 1..Len(response.days) |-> tasks_at(tasks, response.days[d])]

\* lines 320-323: the pending tasks due on the first date or later
multi_day_tasks ==
    query_sorted(SelectSeqIdx(task_rows, LAMBDA t : t.due_date # NoDue /\ t.due_date >= 0))

MultiDayPool ==
    { Task("low", NoCategory, 10, 30, 50), Task("medium", "review", 3, 0, 0) }

MultiDayTaskLists ==
    UNION { { WithIds(p) : p \in [1..n -> MultiDayPool] } : n \in 0..MaxTasks }

MultiDaySettings == { NoSettings, Settings(25, 5, 15, 0, Pref(TRUE, FALSE, << >>)) }

InitMultiDay ==
    /\ user_settings \in MultiDaySettings
    /\ task_rows \in MultiDayTaskLists
    /\ \E api \in BOOLEAN, days \in 1..MaxDays, response \in DistributionResponses :
          /\ api \/ response = Raises
          /\ multi_day = [NoMultiDay EXCEPT !.pc = "start", !.api_available = api,
                                            !.days = days, !.response = response]
    /\ ai_call = NoAICall
    /\ requests = NoRequests
    /\ pomodoro = NoPomodoro
    /\ mode = "none"
    /\ pc = "idle"
    /\ attempts = << >>
    /\ sorted_tasks = << >>
    /\ block_index = 0
    /\ task_index = 0
    /\ session_count = 0
    /\ remaining_block_time = 0
    /\ block_start_time = 0
    /\ allocations = << >>
    /\ events = << >>
    /\ db_session = << >>
    /\ schedule = NoSchedule
    /\ fn = NoCall

\* lines 317-326: the path taken and, with the generator, the distribution
generate_multi_day_schedule ==
    /\ multi_day.pc = "start"
    /\ multi_day' =
          IF ~multi_day.api_available
          THEN [multi_day EXCEPT !.pc = "loop", !.path = "fallback",
                                 !.distributions = [d \in 1..multi_day.days |-> << >>]]
          ELSE [multi_day EXCEPT !.pc = "loop", !.path = "generator",
                                 !.distributions =
                                     distribute_tasks_across_days(
                                         multi_day_tasks, multi_day.days, multi_day.response)]
    /\ UNCHANGED << user_settings, task_rows, mode, pc, attempts, alloc_vars, events,
                    db_session, schedule, fn, ai_call, requests, pomodoro >>

\* lines 328-335 and 400-405: the loop over the days, up to the call of
\* generate_schedule for the day
multi_day_next_day ==
    /\ multi_day.pc = "loop"
    /\ pc = "idle"
    /\ IF multi_day.day_offset >= Len(multi_day.distributions)
       THEN /\ multi_day' = [multi_day EXCEPT !.pc = "returned", !.day_offset = 0]
            /\ UNCHANGED << mode, pc, attempts, alloc_vars, events, schedule >>
       ELSE IF multi_day.path = "generator" /\ given_tasks = << >>
            THEN /\ multi_day' = [multi_day EXCEPT !.day_offset = @ + 1]
                 /\ UNCHANGED << mode, pc, attempts, alloc_vars, events, schedule >>
            ELSE /\ mode' = IF multi_day.path = "generator" THEN "rows" ELSE "query"
                 /\ pc' = "tier1"
                 /\ attempts' = << >>
                 /\ events' = << >>
                 /\ schedule' = NoSchedule
                 /\ alloc_reset
                 /\ UNCHANGED multi_day
    /\ UNCHANGED << user_settings, task_rows, db_session, fn, ai_call, requests, pomodoro >>

\* lines 333 and 403-404: the day's schedule is kept; an exception of
\* generate_schedule leaves generate_multi_day_schedule
multi_day_collect ==
    /\ multi_day.pc = "loop"
    /\ pc \in {"done", "raised"}
    /\ multi_day' =
          IF pc = "raised" THEN [multi_day EXCEPT !.pc = "raised"]
          ELSE IF multi_day.path = "generator" \/ schedule.total_study_time > 0
               THEN [multi_day EXCEPT
                        !.schedules = Append(@, [date |-> multi_day.day_offset,
                                                 tier |-> schedule.tier,
                                                 items |-> schedule.items]),
                        !.day_offset = @ + 1]
               ELSE [multi_day EXCEPT !.day_offset = @ + 1]
    /\ pc' = IF pc = "raised" THEN "raised" ELSE "idle"
    /\ UNCHANGED << user_settings, task_rows, mode, attempts, alloc_vars, events,
                    db_session, schedule, fn, ai_call, requests, pomodoro >>

NextMultiDay ==
    \/ generate_multi_day_schedule
    \/ multi_day_next_day
    \/ multi_day_collect
    \/ generate_productivity_optimized_schedule
    \/ generate_advanced_schedule
    \/ allocate_next_block
    \/ allocate_in_block
    \/ save_advanced_schedule
    \/ generate_basic_schedule

SpecMultiDay == InitMultiDay /\ [][NextMultiDay]_vars

(***************************************************************************)
(* _generate_ai_schedule, lines 208-311.  The response of the external     *)
(* generator is an input: the call raises, or returns a text that is not   *)
(* JSON, or a JSON object, with or without the key 'schedule', whose items *)
(* may lack a key, carry a time that is not HH:MM or a duration that is    *)
(* not a number (defect).                                                  *)
(***************************************************************************)
ResponseItem(task_id, scheduled_time, duration, defect) ==
    [task_id |-> task_id, scheduled_time |-> scheduled_time, duration |-> duration,
     defect |-> defect]

ScheduleResponse(has_schedule, items) ==
    [kind |-> "json", has_schedule |-> has_schedule, schedule |-> items]

ScheduleRaises == [kind |-> "raises", has_schedule |-> FALSE, schedule |-> << >>]
ScheduleText == [kind |-> "text", has_schedule |-> FALSE, schedule |-> << >>]

ScheduleResponses ==
    { ScheduleRaises, ScheduleText,
      ScheduleResponse(FALSE, << >>),
      ScheduleResponse(TRUE, << >>),
      ScheduleResponse(TRUE, << ResponseItem(1, 540, 30, "none"),
                                ResponseItem(2, 600, 200, "none") >>),
      ScheduleResponse(TRUE, << ResponseItem(1, 540, 5, "none"),
                                ResponseItem(99, 540, 45, "none") >>),
      ScheduleResponse(TRUE, << ResponseItem(1, 540, 30, "none"),
                                ResponseItem(2, 600, 30, "bad_time") >>),
      ScheduleResponse(TRUE, << ResponseItem(1, 540, 30, "none"),
                                ResponseItem(1, 600, 0, "bad_duration") >>) }

\* line 296: max(15, min(item['duration'], 90))
reasonable_duration(duration) == Max(15, Min(duration, 90))

\* lines 289-302: the allocations built from the items of the response
response_allocations(response) ==
    [i \in DOMAIN response.schedule |->
        Item(response.schedule[i].task_id, response.schedule[i].scheduled_time,
             reasonable_duration(response.schedule[i].duration))]

\* lines 235, 281-296: what raises inside the try block
ai_schedule_raises(response) ==
    \/ preferred_times_raises
    \/ response.kind \in {"raises", "text"}
    \/ ~response.has_schedule
    \/ \E i \in DOMAIN response.schedule : response.schedule[i].defect # "none"

AIPool ==
    { Task("low", NoCategory, 10, 30, 50), Task("medium", "review", 3, 0, 0),
      Task("medium", NoCategory, NoDue, 120, 50) }

AITaskLists == UNION { { WithIds(p) : p \in [1..n -> AIPool] } : n \in 0..MaxTasks }

AISettings ==
    { NoSettings, Settings(25, 5, 15, 0, Pref(TRUE, TRUE, << 540, 555 >>)),
      Settings(25, 5, 15, 2, Pref(TRUE, FALSE, << >>)) }

InitAI ==
    /\ user_settings \in AISettings
    /\ task_rows \in AITaskLists
    /\ \E api \in BOOLEAN, response \in ScheduleResponses :
          /\ api \/ response = ScheduleRaises
          /\ ai_call = [NoAICall EXCEPT !.pc = "start", !.api_available = api,
                                        !.response = response]
    /\ multi_day = NoMultiDay
    /\ requests = NoRequests
    /\ pomodoro = NoPomodoro
    /\ mode = "rows"
    /\ pc = "idle"
    /\ attempts = << >>
    /\ sorted_tasks = << >>
    /\ block_index = 0
    /\ task_index = 0
    /\ session_count = 0
    /\ remaining_block_time = 0
    /\ block_start_time = 0
    /\ allocations = << >>
    /\ events = << >>
    /\ db_session = << >>
    /\ schedule = NoSchedule
    /\ fn = NoCall

\* lines 213-216 and 306-311: return self._allocate_tasks_fallback(tasks, date)
ai_fallback(outcome) ==
    IF allocation_sort_raises(task_rows)
    THEN /\ ai_call' = [ai_call EXCEPT !.pc = "raised", !.outcome = outcome]
         /\ pc' = "raised"
         /\ UNCHANGED << alloc_vars, events >>
    ELSE /\ ai_call' = [ai_call EXCEPT !.pc = "fallback", !.outcome = outcome]
         /\ allocate_tasks_fallback(task_rows)

\* lines 208-311, up to the return or the entry of the fallback
generate_ai_schedule ==
    /\ ai_call.pc = "start"
    /\ IF ~ai_call.api_available
       THEN ai_fallback("unavailable")
       ELSE IF ai_schedule_raises(ai_call.response)
            THEN ai_fallback("failed")
            ELSE /\ ai_call' = [ai_call EXCEPT
                                   !.pc = "returned", !.outcome = "accepted",
                                   !.result = response_allocations(ai_call.response)]
                 /\ UNCHANGED << pc, alloc_vars, events >>
    /\ UNCHANGED << user_settings, task_rows, mode, attempts, db_session, schedule, fn,
                    multi_day, requests, pomodoro >>

\* line 782 reached through line 216 or 311: the allocations are returned
ai_fallback_returns ==
    /\ ai_call.pc = "fallback"
    /\ pc = "persist"
    /\ ai_call' = [ai_call EXCEPT !.pc = "returned", !.result = allocations]
    /\ pc' = "done"
    /\ UNCHANGED << user_settings, task_rows, mode, attempts, alloc_vars, events,
                    db_session, schedule, fn, multi_day, requests, pomodoro >>

\* an exception of _allocate_tasks_fallback leaves _generate_ai_schedule: the
\* return of line 311 is inside the except handler, outside any try
ai_fallback_raises ==
    /\ ai_call.pc = "fallback"
    /\ pc = after_raise(2)
    /\ ai_call' = [ai_call EXCEPT !.pc = "raised"]
    /\ pc' = "raised"
    /\ UNCHANGED << user_settings, task_rows, mode, attempts, alloc_vars, events,
                    db_session, schedule, fn, multi_day, requests, pomodoro >>

NextAI ==
    \/ generate_ai_schedule
    \/ allocate_next_block
    \/ allocate_in_block
    \/ ai_fallback_returns
    \/ ai_fallback_raises

SpecAI == InitAI /\ [][NextAI]_vars

(***************************************************************************)
(* The scoring functions on their own: _prioritize_for_productivity on a   *)
(* list of tasks carrying goal_alignment, and _calculate_goal_alignment on *)
(* a task and the list of active goals.                                    *)
(***************************************************************************)
Goal(id, category) == [id |-> id, category |-> category]

\* the task has no goal (goal_id is NULL)
NoGoal == 0

\* task.category.lower() in goal.category.lower(): substring of the text
category_in(task_category, goal_category) ==
    \/ task_category = goal_category
    \/ << task_category, goal_category >> \in { << "exam", "exam prep" >> }

\* lines 1514-1529, in hundredths
calculate_goal_alignment(goal_id, category, active_goals) ==
    IF active_goals = << >> THEN 50
    ELSE LET alignment_score[k \in 0..Len(active_goals)] ==
                 IF k = 0 THEN 0
                 ELSE IF alignment_score[k - 1] = 100 THEN 100
                 ELSE IF goal_id = active_goals[k].id THEN 100
                 ELSE IF /\ category # NoCategory
                         /\ active_goals[k].category # NoCategory
                         /\ category_in(category, active_goals[k].category)
                      THEN Max(alignment_score[k - 1], 70)
                      ELSE alignment_score[k - 1]
         IN  alignment_score[Len(active_goals)]

GoalPool ==
    { Goal(1, "exam prep"), Goal(1, NoCategory), Goal(2, "review"), Goal(2, "reading") }

GoalLists ==
    { << >> } \cup { << g >> : g \in GoalPool }
    \cup { << g, h >> : << g, h >> \in { p \in GoalPool \X GoalPool : p[1].id # p[2].id } }

ScoringPool ==
    { Task("high", "exam", 0, 60, 100), Task("medium", "review", 1, 0, 50),
      Task("medium", "exam", 3, 0, 50), Task("medium", NoCategory, 3, 0, 50),
      Task("high", "exam", 10, 60, 0), Task("medium", "review", 0 - 1, 0, 100),
      Task("low", NoCategory, NoDue, 30, 70) }

ScoringTaskLists ==
    UNION { { WithIds(p) : p \in [1..n -> ScoringPool] } : n \in 0..MaxTasks }

ScoringInputs ==
    { [name |-> "none", tasks |-> tasks, goal_id |-> NoGoal, category |-> NoCategory,
       active_goals |-> << >>, result |-> << >>] : tasks \in ScoringTaskLists }
    \cup
    { [name |-> "none", tasks |-> << >>, goal_id |-> g, category |-> c,
       active_goals |-> goals, result |-> << >>] :
          g \in {NoGoal, 1, 2}, c \in {NoCategory, "exam", "review"}, goals \in GoalLists }

InitScoring ==
    /\ fn \in ScoringInputs
    /\ user_settings = NoSettings
    /\ task_rows = << >>
    /\ mode = "values"
    /\ pc = "fn"
    /\ attempts = << >>
    /\ sorted_tasks = << >>
    /\ block_index = 0
    /\ task_index = 0
    /\ session_count = 0
    /\ remaining_block_time = 0
    /\ block_start_time = 0
    /\ allocations = << >>
    /\ events = << >>
    /\ db_session = << >>
    /\ schedule = NoSchedule
    /\ multi_day = NoMultiDay
    /\ ai_call = NoAICall
    /\ requests = NoRequests
    /\ pomodoro = NoPomodoro

call_prioritize_for_productivity ==
    /\ fn.name = "none"
    /\ fn.active_goals = << >> /\ fn.goal_id = NoGoal /\ fn.category = NoCategory
    /\ fn' = [fn EXCEPT !.name = "prioritize_for_productivity",
                        !.result = prioritize_for_productivity(fn.tasks)]
    /\ UNCHANGED pipeline_vars

call_calculate_goal_alignment ==
    /\ fn.name = "none"
    /\ fn.tasks = << >>
    /\ fn' = [fn EXCEPT !.name = "calculate_goal_alignment",
                        !.result = calculate_goal_alignment(fn.goal_id, fn.category,
                                                            fn.active_goals)]
    /\ UNCHANGED pipeline_vars

NextScoring == call_prioritize_for_productivity \/ call_calculate_goal_alignment

SpecScoring == InitScoring /\ [][NextScoring]_vars

(***************************************************************************)
(* The insight and urgency functions on their own: _analyze_workload_balance *)
(* on the total of a schedule, _calculate_due_date_urgency on a due date   *)
(* and a current date.                                                     *)
(***************************************************************************)
\* lines 599-617: the balance_level of the returned dict
analyze_workload_balance(total_time) ==
    IF total_time > 300 THEN "overloaded"
    ELSE IF total_time > 180 THEN "balanced"
    ELSE "light"

InsightInputs ==
    { [name |-> "none", arg |-> "schedule", total_study_time |-> t,
       due_date |-> NoDue, current_date |-> 0, result |-> 0] : t \in 0..MaxTotal }
    \cup
    { [name |-> "none", arg |-> "due_date", total_study_time |-> 0,
       due_date |-> d, current_date |-> c, result |-> 0] :
          d \in {NoDue} \cup (0 - 2)..MaxDue, c \in 0..2 }

InitInsights ==
    /\ fn \in InsightInputs
    /\ user_settings = NoSettings
    /\ task_rows = << >>
    /\ mode = "none"
    /\ pc = "fn"
    /\ attempts = << >>
    /\ sorted_tasks = << >>
    /\ block_index = 0
    /\ task_index = 0
    /\ session_count = 0
    /\ remaining_block_time = 0
    /\ block_start_time = 0
    /\ allocations = << >>
    /\ events = << >>
    /\ db_session = << >>
    /\ schedule = NoSchedule
    /\ multi_day = NoMultiDay
    /\ ai_call = NoAICall
    /\ requests = NoRequests
    /\ pomodoro = NoPomodoro

call_analyze_workload_balance ==
    /\ fn.name = "none"
    /\ fn.arg = "schedule"
    /\ fn' = [fn EXCEPT !.name = "analyze_workload_balance",
                        !.result = analyze_workload_balance(fn.total_study_time)]
    /\ UNCHANGED pipeline_vars

call_calculate_due_date_urgency ==
    /\ fn.name = "none"
    /\ fn.arg = "due_date"
    /\ fn' = [fn EXCEPT !.name = "calculate_due_date_urgency",
                        !.result = calculate_due_date_urgency(
                                       IF fn.due_date = NoDue THEN NoDue
                                       ELSE fn.due_date - fn.current_date)]
    /\ UNCHANGED pipeline_vars

NextInsights == call_analyze_workload_balance \/ call_calculate_due_date_urgency

SpecInsights == InitInsights /\ [][NextInsights]_vars

(***************************************************************************)
(* routes/schedules.py generate, daily branch: requests of one user run    *)
(* concurrently, each with its own database session.  A request reads the  *)
(* Schedule table (lines 71-74), and later generate_schedule adds and      *)
(* commits a Schedule (line 83); nothing orders the two steps of one       *)
(* request against those of another, and the table has no unique           *)
(* constraint on (user_id, date) (models.py:126-135).                      *)
(***************************************************************************)
TargetDates == {0, 1}

Request(target_date) == [pc |-> "start", target_date |-> target_date]

ScheduleRow(date, request) == [date |-> date, request |-> request]

\* Schedule.query.filter_by(user_id=..., date=target_date).first()
existing_schedule(table, target_date) ==
    \E i \in DOMAIN table : table[i].date = target_date

request_vars == << user_settings, task_rows, mode, pc, attempts, alloc_vars, events,
                   db_session, schedule, fn, multi_day, ai_call, pomodoro >>

InitRequests ==
    /\ \E n \in 1..MaxRequests :
          requests \in { [table |-> << >>, request |-> q] :
                            q \in [1..n -> { Request(d) : d \in TargetDates }] }
    /\ user_settings = NoSettings
    /\ task_rows = << >>
    /\ mode = "none"
    /\ pc = "route"
    /\ attempts = << >>
    /\ sorted_tasks = << >>
    /\ block_index = 0
    /\ task_index = 0
    /\ session_count = 0
    /\ remaining_block_time = 0
    /\ block_start_time = 0
    /\ allocations = << >>
    /\ events = << >>
    /\ db_session = << >>
    /\ schedule = NoSchedule
    /\ fn = NoCall
    /\ multi_day = NoMultiDay
    /\ ai_call = NoAICall
    /\ pomodoro = NoPomodoro

\* lines 71-78: the check for an existing schedule and the redirect to it
generate_check_existing ==
    \E r \in DOMAIN requests.request :
        /\ requests.request[r].pc = "start"
        /\ requests' = [requests EXCEPT !.request[r].pc =
                            IF existing_schedule(requests.table,
                                                 requests.request[r].target_date)
                            THEN "redirected" ELSE "generate"]
        /\ UNCHANGED request_vars

\* lines 80-85: generate_schedule adds a Schedule and commits
generate_new_schedule ==
    \E r \in DOMAIN requests.request :
        /\ requests.request[r].pc = "generate"
        /\ requests' = [requests EXCEPT
                            !.table = Append(@, ScheduleRow(requests.request[r].target_date, r)),
                            !.request[r].pc = "created"]
        /\ UNCHANGED request_vars

\* lines 86-88: generate_schedule raised, nothing was committed
generate_fails ==
    \E r \in DOMAIN requests.request :
        /\ requests.request[r].pc = "generate"
        /\ requests' = [requests EXCEPT !.request[r].pc = "error"]
        /\ UNCHANGED request_vars

NextRequests == generate_check_existing \/ generate_new_schedule \/ generate_fails

SpecRequests == InitRequests /\ [][NextRequests]_vars

(***************************************************************************)
(* routes/pomodoro.py: start_session, complete_session, interrupt_session. *)
(* Each action is one request; the table is in created_at order.  Init     *)
(* draws the user's settings and a history of ended work sessions.         *)
(***************************************************************************)
PomodoroSession(session_type, duration, end_time, completed, interrupted) ==
    [session_type |-> session_type, duration |-> duration, end_time |-> end_time,
     completed |-> completed, interrupted |-> interrupted]

\* no request has been answered yet
NoResponse == [request |-> "none", session_id |-> 0, session_type |-> "none",
               requested |-> 0, status |-> "none", duration |-> 0]

Response(request, session_id, session_type, requested, status, duration) ==
    [request |-> request, session_id |-> session_id, session_type |-> session_type,
     requested |-> requested, status |-> status, duration |-> duration]

\* minutes between start_time and the request that ends the session
ElapsedMinutes == {20}

\* lines 74-77: the work sessions of the table, latest first, at most `limit`
recent_work_sessions(sessions, limit) ==
    LET work == SelectSeq(sessions, LAMBDA row : row.session_type = "work")
    IN  [i \in 1..Min(limit, Len(work)) |-> work[Len(work) + 1 - i]]

\* line 79: the completed ones among the recent work sessions
completed_sessions(sessions) ==
    LET recent == recent_work_sessions(sessions, 4)
    IN  Cardinality({ i \in DOMAIN recent : recent[i].completed })

\* line 82 raises ZeroDivisionError on `completed_sessions % 0`
start_raises(session_type, requested) ==
    /\ requested = 0
    /\ session_type # "work"
    /\ completed_sessions(pomodoro.sessions) > 0
    /\ sessions_until_long_break = 0

\* lines 69-85: the duration of a session started without one
default_session_duration(session_type) ==
    IF session_type = "work" THEN work_duration
    ELSE IF /\ completed_sessions(pomodoro.sessions) > 0
            /\ completed_sessions(pomodoro.sessions) % sessions_until_long_break = 0
         THEN long_break_duration
         ELSE break_duration

session_never_ended(row) == FALSE

\* `if session.end_time:` of lines 116 and 147
session_ended(row) == row.end_time # "none"

PomodoroSettings ==
    { NoSettings } \cup
    { Settings(25, 5, 15, n, Pref(FALSE, TRUE, << >>)) : n \in {0, 2} }

Histories ==
    UNION { [1..n -> { PomodoroSession("work", 20, "set", TRUE, FALSE),
                       PomodoroSession("work", 20, "set", FALSE, TRUE) }] :
            n \in 0..MaxHistory }

pomodoro_vars == << user_settings, task_rows, mode, pc, attempts, alloc_vars, events,
                    db_session, schedule, fn, multi_day, ai_call, requests >>

InitPomodoro ==
    /\ user_settings \in PomodoroSettings
    /\ pomodoro \in { [sessions |-> h, started |-> 0, response |-> NoResponse] :
                        h \in Histories }
    /\ task_rows = << >>
    /\ mode = "none"
    /\ pc = "route"
    /\ attempts = << >>
    /\ sorted_tasks = << >>
    /\ block_index = 0
    /\ task_index = 0
    /\ session_count = 0
    /\ remaining_block_time = 0
    /\ block_start_time = 0
    /\ allocations = << >>
    /\ events = << >>
    /\ db_session = << >>
    /\ schedule = NoSchedule
    /\ fn = NoCall
    /\ multi_day = NoMultiDay
    /\ ai_call = NoAICall
    /\ requests = NoRequests

\* lines 57-105
start_session ==
    \E session_type \in {"work", "break"}, requested \in {0, 10} :
        /\ pomodoro.started < MaxNewSessions
        /\ IF start_raises(session_type, requested)
           THEN pomodoro' = [pomodoro EXCEPT
                                !.started = @ + 1,
                                !.response = Response("start_session", 0, session_type,
                                                      requested, "raised", 0)]
           ELSE LET duration == IF requested # 0 THEN requested
                                ELSE default_session_duration(session_type)
                IN  pomodoro' =
                        [sessions |-> Append(pomodoro.sessions,
                                             PomodoroSession(session_type, duration, "none",
                                                             FALSE, FALSE)),
                         started |-> pomodoro.started + 1,
                         response |-> Response("start_session",
                                               Len(pomodoro.sessions) + 1, session_type,
                                               requested, "ok", duration)]
        /\ UNCHANGED pomodoro_vars

\* lines 107-136
complete_session ==
    \E session_id \in DOMAIN pomodoro.sessions, actual_duration \in ElapsedMinutes :
        /\ IF session_ended(pomodoro.sessions[session_id])
           THEN pomodoro' = [pomodoro EXCEPT !.response =
                                Response("complete_session", session_id,
                                         pomodoro.sessions[session_id].session_type, 0,
                                         "error", 0)]
           ELSE pomodoro' =
                    [sessions |-> [pomodoro.sessions EXCEPT
                                      ![session_id].end_time = "set",
                                      ![session_id].duration = actual_duration,
                                      ![session_id].completed = TRUE],
                     started |-> pomodoro.started,
                     response |-> Response("complete_session", session_id,
                                           pomodoro.sessions[session_id].session_type, 0,
                                           "ok", actual_duration)]
        /\ UNCHANGED pomodoro_vars

\* lines 138-163
interrupt_session ==
    \E session_id \in DOMAIN pomodoro.sessions, actual_duration \in ElapsedMinutes :
        /\ IF session_ended(pomodoro.sessions[session_id])
           THEN pomodoro' = [pomodoro EXCEPT !.response =
                                Response("interrupt_session", session_id,
                                         pomodoro.sessions[session_id].session_type, 0,
                                         "error", 0)]
           ELSE pomodoro' =
                    [sessions |-> [pomodoro.sessions EXCEPT
                                      ![session_id].end_time = "set",
                                      ![session_id].duration = actual_duration,
                                      ![session_id].interrupted = TRUE],
                     started |-> pomodoro.started,
                     response |-> Response("interrupt_session", session_id,
                                           pomodoro.sessions[session_id].session_type, 0,
                                           "ok", actual_duration)]
        /\ UNCHANGED pomodoro_vars

NextPomodoro == start_session \/ complete_session \/ interrupt_session

SpecPomodoro == InitPomodoro /\ [][NextPomodoro]_vars

(***************************************************************************)
(* Properties.                                                             *)
(***************************************************************************)
Returned == pc = "done"

RunningTier ==
    CASE pc = "tier1" -> 1
      [] pc \in {"tier2", "for", "while", "persist"} -> 2
      [] pc = "tier3" -> 3
      [] OTHER -> 0

Disjoint(a, b) ==
    \/ a.scheduled_time + a.duration <= b.scheduled_time
    \/ b.scheduled_time + b.duration <= a.scheduled_time

\* C1: any two scheduled items of a returned Schedule, whichever tier built
\* it, have disjoint intervals [scheduled_time, scheduled_time + duration).
C1_NoOverlap ==
    Returned =>
        \A i, j \in DOMAIN schedule.items :
            i < j => Disjoint(schedule.items[i], schedule.items[j])

InStudyBlock(item) ==
    \E b \in DOMAIN create_advanced_daily_structure :
        LET block == create_advanced_daily_structure[b]
        IN  /\ block.type = "study"
            /\ block.start <= item.scheduled_time
            /\ item.scheduled_time + item.duration <= block.end

\* C2: every scheduled item the allocator produces lies inside one block of
\* kind 'study' of the day's skeleton; no task is placed in a morning-routine,
\* meal, break or wind-down block.
C2_ItemsInStudyBlocks ==
    \A i \in DOMAIN allocations : InStudyBlock(allocations[i])

\* C3: generate_schedule never raises: when the first tier and the advanced
\* tier have failed, the call still returns a Schedule.
C3_NeverRaises == pc # "raised"

\* C4: the tiers are tried in the order first, advanced, basic; a tier is
\* entered only when every earlier tier has raised, the returned schedule is
\* the one of the first tier that did not raise, and no tier runs after it.
C4_TierOrder ==
    /\ \A i \in DOMAIN attempts :
          /\ attempts[i].tier = i
          /\ i < Len(attempts) => attempts[i].raised
    /\ RunningTier # 0 =>
          /\ Len(attempts) = RunningTier - 1
          /\ \A i \in DOMAIN attempts : attempts[i].raised
    /\ Returned =>
          /\ attempts # << >>
          /\ ~attempts[Len(attempts)].raised
          /\ schedule.tier = attempts[Len(attempts)].tier
          /\ db_session = << schedule >>
    /\ pc = "raised" =>
          /\ Len(attempts) = 3
          /\ \A i \in DOMAIN attempts : attempts[i].raised

\* the basic tier returns after the first tier and the advanced tier raised
C4_Witness ==
    /\ Returned
    /\ schedule.tier = 3
    /\ schedule.items # << >>
    /\ Len(attempts) = 3

ItemsTotal(items) ==
    LET Sum[i \in 0..Len(items)] == IF i = 0 THEN 0 ELSE Sum[i - 1] + items[i].duration
    IN  Sum[Len(items)]

\* C5: in every Schedule of any tier total_study_time is the sum of the
\* durations of its scheduled task items, breaks not counted; an empty
\* schedule has total_study_time 0.
C5_TotalIsSumOfItems ==
    schedule.tier # 0 =>
        /\ schedule.total_study_time = ItemsTotal(schedule.items)
        /\ schedule.items = << >> => schedule.total_study_time = 0

\* a first-tier schedule of two tasks with a break between them
C5_Witness ==
    /\ Returned
    /\ schedule.tier = 1
    /\ Len(schedule.items) >= 2
    /\ \E e \in DOMAIN events : events[e].type = "break" /\ events[e].duration > 0

\* C6: generated_by_ai is true only for items of the external generator: a
\* schedule built by a rule-based tier (advanced or basic) carries false.
C6_RuleBasedNotFlaggedAI ==
    schedule.tier \in {2, 3} => ~schedule.generated_by_ai

InRange(minutes) == 15 <= minutes /\ minutes <= 120

priority_multiplier(priority) ==
    CASE priority = "high" -> 12
      [] priority = "low" -> 8
      [] OTHER -> 10

\* the multiple of 5 nearest to a number of hundredths of a minute
NearestFive_x100(x100) == ((x100 + 250) \div 500) * 5

\* the reference value as C8 states it, computed in hundredths of a minute
reference_duration(task, available_time) ==
    LET base == IF task.estimated_duration # 0
                THEN task.estimated_duration ELSE category_estimates(task.category)
        product == base * priority_multiplier(task.priority)
                        * category_multipliers(task.category)
        clamped == Max(1500, Min(product, 12000))
        capped == Min(clamped, available_time * 100)
    IN  NearestFive_x100(capped)

WholeMinutes(x1000) ==
    CHOOSE t \in 0..300 : t * 1000 <= x1000 /\ x1000 < (t + 1) * 1000

\* the multiple of 5 within 2 minutes of a whole number of minutes
NearestFive(minutes) ==
    CHOOSE m \in { 5 * k : k \in 0..30 } : Abs(m - minutes) <= 2

amended_duration(task, available_time, default_duration) ==
    LET base == IF task.estimated_duration # 0
                THEN task.estimated_duration ELSE default_duration
        scaled_x100 ==
            IF task.priority = "high"
            THEN IF base * 12 <= available_time * 10
                 THEN base * 120 ELSE available_time * 100
            ELSE IF task.priority = "low"
                 THEN IF base * 8 >= 150 THEN base * 80 ELSE 1500
                 ELSE base * 100
        whole == WholeMinutes(scaled_x100 * category_multipliers(task.category))
        ceiling == IF available_time < 120 THEN available_time ELSE 120
        fitted == IF whole > ceiling THEN ceiling ELSE whole
    IN  NearestFive(IF fitted < 15 THEN 15 ELSE fitted)

InAllocator == RunningTier = 2 \/ schedule.tier = 2

SessionsUpTo(e) == Cardinality({ i \in 1..e : events[i].type = "session" })

\* C9: in a run of the allocator that places at least N sessions
\* (N = sessions_until_long_break), every session that is followed by another
\* session is directly followed by a break, which is a long break exactly
\* when the session is the N-th since the last long break and a short break
\* otherwise.
C9_BreakCadence ==
    ( /\ InAllocator
      /\ sessions_until_long_break > 0
      /\ SessionsUpTo(Len(events)) >= sessions_until_long_break ) =>
        \A e \in DOMAIN events :
            ( /\ events[e].type = "session"
              /\ \E later \in (e + 1)..Len(events) : events[later].type = "session" ) =>
                /\ events[e + 1].type = "break"
                /\ events[e + 1].kind = "long"
                      <=> SessionsUpTo(e) % sessions_until_long_break = 0

\* C10: a single 120-minute task given to the allocator is placed, with its
\* duration capped to the 90 minutes of a study block.
C10_LongTaskCappedTo90 ==
    ( /\ schedule.tier = 2
      /\ Len(task_rows) = 1
      /\ task_rows[1].estimated_duration = 120
      /\ task_rows[1].priority = "medium"
      /\ task_rows[1].category = NoCategory ) =>
        /\ Len(schedule.items) = 1
        /\ schedule.items[1].duration = 90

\* the items the allocator has placed so far
Placed == allocations

InputPosition(task_id) ==
    CHOOSE k \in DOMAIN advanced_tasks : advanced_tasks[k].id = task_id

GivenTask(task_id) == advanced_tasks[InputPosition(task_id)]

PriorityOrder == << "high", "medium", "low" >>

PriorityPosition(task) ==
    IF task.priority \in {"high", "medium"}
    THEN CHOOSE k \in DOMAIN PriorityOrder : PriorityOrder[k] = task.priority
    ELSE 3

\* the order of line 724-728: priority, then due date (none last), then
\* category (none as 'z'), then the position in the input
AllocatedBefore(t, u) ==
    \/ PriorityPosition(t) < PriorityPosition(u)
    \/ /\ PriorityPosition(t) = PriorityPosition(u)
       /\ \/ t.due_date < u.due_date
          \/ /\ t.due_date = u.due_date
             /\ \/ category_rank(t.category) < category_rank(u.category)
                \/ /\ category_rank(t.category) = category_rank(u.category)
                   /\ InputPosition(t.id) < InputPosition(u.id)

C12_PlacedIsPrefix ==
    (InAllocator /\ sorted_tasks # << >>) =>
        /\ Len(Placed) = task_index
        /\ Len(Placed) <= Len(sorted_tasks)
        /\ \A k \in DOMAIN Placed : Placed[k].task_id = sorted_tasks[k].id
        /\ \A a, b \in DOMAIN Placed : a # b => Placed[a].task_id # Placed[b].task_id

\* a task that did not fit the first block was placed at the start of a
\* later block
C12_Witness ==
    /\ schedule.tier = 2
    /\ Len(schedule.items) >= 2
    /\ schedule.items[1].scheduled_time = 480
    /\ schedule.items[1].duration = 60
    /\ schedule.items[2].scheduled_time = 540

\* C13: the allocator never fails, whatever the task list and the pomodoro
\* configuration: it ends with every task placed or with the blocks
\* exhausted and the remaining tasks left unscheduled.
C13_AllocatorNeverFails ==
    \A i \in DOMAIN attempts : attempts[i].tier = 2 => ~attempts[i].raised

\* C14: when tasks remain unplaced after the blocks are exhausted, the result
\* carries the unplaced tasks as a field.
C14_UnplacedReported ==
    ( /\ schedule.tier = 2
      /\ Len(schedule.items) < Len(advanced_tasks) ) =>
        "unplaced" \in DOMAIN schedule

\* the days whose schedule holds an item of the task
ScheduledOn(task_id) ==
    { k \in DOMAIN multi_day.schedules :
        \E i \in DOMAIN multi_day.schedules[k].items :
            multi_day.schedules[k].items[i].task_id = task_id }

\* C15: with the external generator disabled, generate_multi_day_schedule
\* puts every pending task on one day only (the day of its index modulo the
\* number of days): no task appears in the schedules of two days.
C15_NoTaskOnTwoDays ==
    (multi_day.pc = "returned" /\ ~multi_day.api_available) =>
        \A t \in DOMAIN task_rows : Cardinality(ScheduledOn(task_rows[t].id)) <= 1

Occurrences(distributions, task_id) ==
    UNION { { << d, k >> : k \in { j \in DOMAIN distributions[d] :
                                        distributions[d][j].id = task_id } } :
            d \in DOMAIN distributions }

ValidPartition(response, n) ==
    /\ response.kind = "json"
    /\ \A d \in DOMAIN response.days : \A k \in DOMAIN response.days[d] :
          response.days[d][k] \in 0..(n - 1)
    /\ \A d1, d2 \in DOMAIN response.days :
          \A k1 \in DOMAIN response.days[d1], k2 \in DOMAIN response.days[d2] :
              response.days[d1][k1] = response.days[d2][k2] => d1 = d2 /\ k1 = k2

InputOrder(tasks, t) == CHOOSE i \in DOMAIN tasks : tasks[i] = t

RoundRobin(tasks, days) ==
    [d \in 1..days |->
        SelectSeqIdx(tasks, LAMBDA t : (InputOrder(tasks, t) - 1) % days = d - 1)]

\* C16: the distribution of _distribute_tasks_across_days is the partition
\* of the external generator only if all its indices are in range and none
\* is assigned twice, and otherwise the round-robin assignment; in it no
\* task appears on two days or twice on one day.
C16_DistributionHasNoDuplicate ==
    (multi_day.path = "generator" /\ multi_day_tasks # << >>) =>
        /\ \A t \in DOMAIN multi_day_tasks :
              Cardinality(Occurrences(multi_day.distributions, multi_day_tasks[t].id)) <= 1
        /\ \/ multi_day.distributions = RoundRobin(multi_day_tasks, multi_day.days)
           \/ ValidPartition(multi_day.response, Len(multi_day_tasks))

\* the generator answered with a partition that assigns task 0 three times,
\* and the distribution is the round-robin one
C16_Witness ==
    /\ multi_day.pc = "returned"
    /\ multi_day.path = "generator"
    /\ multi_day.response = Partition(<< << 0, 0 >>, << 0, 1 >> >>)
    /\ Len(multi_day_tasks) >= 2
    /\ multi_day.days = 2
    /\ multi_day.distributions = RoundRobin(multi_day_tasks, 2)
    /\ Len(multi_day.schedules) = 2

SubmittedIds == { task_rows[k].id : k \in DOMAIN task_rows }

\* C17: every allocation accepted from a response of the external generator
\* has a duration within [15,90] and a task id of a submitted task.
C17_AcceptedItemsValid ==
    ai_call.outcome = "accepted" =>
        \A i \in DOMAIN ai_call.result :
            /\ 15 <= ai_call.result[i].duration
            /\ ai_call.result[i].duration <= 90
            /\ ai_call.result[i].task_id \in SubmittedIds

\* a failed call, a text that is not JSON, a missing 'schedule', or an item
\* that is not well-formed
ResponseFails(response) ==
    \/ response.kind # "json"
    \/ ~response.has_schedule
    \/ \E i \in DOMAIN response.schedule : response.schedule[i].defect # "none"

\* the items the rule-based allocator placed, from its log of sessions
RuleBasedItems ==
    LET sessions == SelectSeq(events, LAMBDA e : e.type = "session")
    IN  [i \in DOMAIN sessions |->
            Item(sessions[i].task_id, sessions[i].scheduled_time, sessions[i].duration)]

\* C18: when the call of the generator fails or its response fails JSON or
\* structural validation (a later item malformed included), the call
\* _generate_ai_schedule ends like one with an unavailable generator: no
\* exception reaches the caller, no item of the response is kept, and the
\* result is the rule-based allocation of the same tasks.
C18_FailureHandledAsUnavailable ==
    ( /\ ai_call.api_available
      /\ ResponseFails(ai_call.response)
      /\ ai_call.pc \in {"returned", "raised"} ) =>
        /\ ai_call.pc = "returned"
        /\ ai_call.result = RuleBasedItems
        /\ sorted_tasks = sort_for_allocation(task_rows)

ScoredBefore(t, u) ==
    \/ priority_score(t) > priority_score(u)
    \/ /\ priority_score(t) = priority_score(u)
       /\ \/ t.due_date < u.due_date
          \/ /\ t.due_date = u.due_date
             /\ category_rank(t.category) <= category_rank(u.category)

\* C19: the prioritizer returns the same tasks by descending priority score,
\* tasks of equal score by earlier due date and then by category, whatever
\* their order in the input.
C19_TiesByDueDateThenCategory ==
    fn.name = "prioritize_for_productivity" =>
        /\ Len(fn.result) = Len(fn.tasks)
        /\ \A t \in DOMAIN fn.tasks : \E r \in DOMAIN fn.result : fn.result[r] = fn.tasks[t]
        /\ \A i, j \in DOMAIN fn.result :
              i < j => ScoredBefore(fn.result[i], fn.result[j])

Linked(goal_id, goals) == \E k \in DOMAIN goals : goals[k].id = goal_id

Overlaps(category, goals) ==
    \E k \in DOMAIN goals :
        /\ category # NoCategory
        /\ goals[k].category # NoCategory
        /\ category_in(category, goals[k].category)

\* C20: the goal alignment of a task is 1.0 if it is linked to an active
\* goal, 0.7 if its category overlaps the category of an active goal, and 0.5
\* otherwise, with active goals that do not match as well as with none.
C20_GoalAlignmentValues ==
    fn.name = "calculate_goal_alignment" =>
        fn.result = IF Linked(fn.goal_id, fn.active_goals) THEN 100
                    ELSE IF Overlaps(fn.category, fn.active_goals) THEN 70
                    ELSE 50

\* C21: the workload balance is 'overloaded' for a total above 300 minutes,
\* 'balanced' for every total from 180 to 300 inclusive and 'light' for every
\* total below 180.
C21_BalanceLevels ==
    fn.name = "analyze_workload_balance" =>
        fn.result = IF fn.total_study_time > 300 THEN "overloaded"
                    ELSE IF fn.total_study_time >= 180 THEN "balanced"
                    ELSE "light"

\* C22: the urgency is 1.0 for an overdue task, 0.9 for one due on the target
\* date, 0.7 within 3 days, 0.5 within 7 days, 0.2 later, and 0.3 for a task
\* without a due date.
C22_UrgencyTable ==
    fn.name = "calculate_due_date_urgency" =>
        fn.result = IF fn.due_date = NoDue THEN 30
                    ELSE IF fn.due_date < fn.current_date THEN 100
                    ELSE IF fn.due_date = fn.current_date THEN 90
                    ELSE IF fn.due_date <= fn.current_date + 3 THEN 70
                    ELSE IF fn.due_date <= fn.current_date + 7 THEN 50
                    ELSE 20

C22_Witness ==
    /\ fn.name = "calculate_due_date_urgency"
    /\ fn.due_date = fn.current_date + 3
    /\ fn.current_date > 0
    /\ fn.result = 70

BasicTierRan == attempts # << >> /\ attempts[Len(attempts)].tier = 3

BasicTierReturned == BasicTierRan /\ Returned

\* the i-th task at the i-th preferred time, no two tasks at one time
OnePerPreferredTime ==
    /\ Len(schedule.items) = Min(Len(basic_tasks), Len(get_preferred_times))
    /\ \A i \in DOMAIN schedule.items :
          /\ schedule.items[i].task_id = basic_tasks[i].id
          /\ schedule.items[i].scheduled_time = get_preferred_times[i]
    /\ \A i, j \in DOMAIN schedule.items :
          i # j => schedule.items[i].scheduled_time # schedule.items[j].scheduled_time

DefaultDurations == \A i \in DOMAIN schedule.items : schedule.items[i].duration = 25

\* C23: the basic tier places the i-th task at the i-th preferred time, never
\* two tasks in one slot, gives each placed task the default duration, never
\* raises, and returns an empty schedule when there are no tasks.
C23_BasicTierContract ==
    /\ BasicTierRan => ~attempts[Len(attempts)].raised
    /\ BasicTierReturned =>
          /\ OnePerPreferredTime
          /\ DefaultDurations
          /\ basic_tasks = << >> => schedule.items = << >> /\ schedule.total_study_time = 0

\* the task list a tier works on
TierTasks(tier) ==
    CASE tier = 1 -> productivity_tasks
      [] tier = 2 -> advanced_tasks
      [] OTHER -> basic_tasks

\* C24: for an empty task list the call returns a Schedule with
\* total_study_time 0 and no scheduled items, and no tier raises on it.
C24_EmptyListGivesEmptySchedule ==
    /\ \A i \in DOMAIN attempts :
          TierTasks(attempts[i].tier) = << >> => ~attempts[i].raised
    /\ pc = "raised" => TierTasks(3) # << >>
    /\ Returned /\ TierTasks(schedule.tier) = << >> =>
          /\ schedule.total_study_time = 0
          /\ schedule.items = << >>
          /\ db_session = << schedule >>

\* a query that selects none of the user's pending tasks
C24_Witness ==
    /\ Returned
    /\ mode = "query"
    /\ task_rows # << >>
    /\ TierTasks(schedule.tier) = << >>
    /\ schedule.items = << >>

\* the ids of the task list the call works on
InputIds == { TierTasks(schedule.tier)[i].id : i \in DOMAIN TierTasks(schedule.tier) }

\* C25: in a returned Schedule each task id appears in at most one scheduled
\* item, and every scheduled task id belongs to the input task list.
C25_EachTaskOnceFromInput ==
    Returned =>
        /\ \A i, j \in DOMAIN schedule.items :
              i # j => schedule.items[i].task_id # schedule.items[j].task_id
        /\ \A i \in DOMAIN schedule.items : schedule.items[i].task_id \in InputIds

\* a schedule of more than one item
C25_Witness ==
    /\ Returned
    /\ Len(schedule.items) >= 2
    /\ Len(schedule.items) = Len(TierTasks(schedule.tier))

ReturnedAttempts == { i \in DOMAIN attempts : ~attempts[i].raised }

\* C26: a call that a tier answers adds exactly one Schedule to the session,
\* the returned one; a tier that raises leaves no record of its own.
C26_OneScheduleAdded ==
    /\ Len(db_session) = Cardinality(ReturnedAttempts)
    /\ ~Returned => db_session = << >>
    /\ Returned => Len(db_session) = 1 /\ db_session[1] = schedule

\* the advanced tier answers after the first tier raised
C26_Witness ==
    /\ Returned
    /\ Len(attempts) = 2
    /\ attempts[1].raised
    /\ schedule.items # << >>
    /\ db_session = << schedule >>

Urgency(t) ==
    calculate_due_date_urgency(IF t.due_date = NoDue THEN NoDue ELSE t.due_date - today)

Outweighs(u, t) ==
    25 * (Urgency(u) - Urgency(t)) + 15 * (u.goal_alignment - t.goal_alignment)
        >= 3000 * (base_priority(t) - base_priority(u))

SchedulesFor(date) == { i \in DOMAIN requests.table : requests.table[i].date = date }

\* C28: under any interleaving of the daily generate requests of one user at
\* most one Schedule exists per date: two concurrent requests never both
\* create one.
C28_OneSchedulePerDate ==
    \A d \in TargetDates : Cardinality(SchedulesFor(d)) <= 1

\* the user's completed work sessions
CompletedWorkSessions ==
    Cardinality({ i \in DOMAIN pomodoro.sessions :
                     /\ pomodoro.sessions[i].session_type = "work"
                     /\ pomodoro.sessions[i].completed })

PositiveMultiple(c, n) == \E k \in 1..c : c = k * n

\* C29: a break started without an explicit duration gets the long-break
\* duration exactly when the number of completed work sessions is a positive
\* multiple of sessions_until_long_break, and the short-break duration
\* otherwise, for every sessions_until_long_break and every history.
C29_LongBreakOnMultiple ==
    /\ pomodoro.response.request = "start_session"
    /\ pomodoro.response.session_type = "break"
    /\ pomodoro.response.requested = 0
    => /\ pomodoro.response.status = "ok"
       /\ pomodoro.response.duration =
              IF PositiveMultiple(CompletedWorkSessions, sessions_until_long_break)
              THEN long_break_duration
              ELSE break_duration

Ended(row) == row.end_time = "set"

NotCompletedAndInterrupted ==
    \A i \in DOMAIN pomodoro.sessions :
        ~(pomodoro.sessions[i].completed /\ pomodoro.sessions[i].interrupted)

RefusedOnceEnded ==
    \A id \in DOMAIN pomodoro.sessions :
        Ended(pomodoro.sessions[id]) =>
            /\ pomodoro'.sessions[id] = pomodoro.sessions[id]
            /\ /\ pomodoro'.response # pomodoro.response
               /\ pomodoro'.response.request \in {"complete_session", "interrupt_session"}
               /\ pomodoro'.response.session_id = id
               => pomodoro'.response.status = "error"

\* C30: once complete-session or interrupt-session has set the end time of a
\* session, every further complete or interrupt request on it returns an
\* error and leaves it unchanged; no session is both completed and
\* interrupted.
C30_EndedAtMostOnce == []NotCompletedAndInterrupted /\ [][RefusedOnceEnded]_vars

\* an interrupt request refused on a session that was started and completed
C30_Witness ==
    /\ pomodoro.started > 0
    /\ pomodoro.response.request = "interrupt_session"
    /\ pomodoro.response.status = "error"
    /\ pomodoro.response.session_id = Len(pomodoro.sessions)
    /\ pomodoro.sessions[Len(pomodoro.sessions)].completed
    /\ ~pomodoro.sessions[Len(pomodoro.sessions)].interrupted

====
